---- MODULE Spec2Model ----
(***************************************************************************)
(* Model of the Moessbauer filter control program (src/src/main.rs).       *)
(*                                                                         *)
(* One hardware filter is driven by two kinds of callers of the same       *)
(* binary: a command-line process running the `configure` or the `start`   *)
(* subcommand, and the `server` process whose request handler `ws_handler` *)
(* runs once per remote configuration request.  The server keeps the       *)
(* filter in an Arc<Mutex<MBFilter>>; the command-line process opens its   *)
(* own MBFilter and never touches that mutex.                              *)
(*                                                                         *)
(* The body of ws_handler is modelled as executed once per request (the    *)
(* route closure calls the async fn; the model takes the call as running   *)
(* the body to its end or to its panic).                                   *)
(* Sizes are scaled: BufLen stands for the 12*2048 byte read buffer and    *)
(* U64Mod for 2^64, the range of the u64 byte counter `fc`.                *)
(***************************************************************************)
EXTENDS Integers, FiniteSets, Sequences, TLC

\* ---- bounds -------------------------------------------------------------
BufLen == 2          \* scaled length of `buffer` (12*2048 in the source)
U64Mod == 6          \* scaled 2^64: u64 values are 0 .. U64Mod-1
MaxSum == 12         \* cap on the true number of bytes read in one capture
MaxReads == 3        \* filter.read calls are counted up to this number
ChunkLen == 1        \* scaled 12288: the chunk of the two-chunk scenario

\* ---- domains ------------------------------------------------------------
States   == {"Unconfigured", "InvalidParameters", "Ready", "Running"}
Configs  == {"c1"}                    \* configurations that pass validation
Requests == Configs \cup {"bad"}      \* raw request fields; "bad" fails it
Handlers == {"h1", "h2"}              \* concurrent ws_handler invocations
Cli      == "cli"                     \* identity of the command-line process

VARIABLES
    devState,      \* MBFilter::state() of the hardware
    devConfig,     \* configuration loaded into the hardware
    lockHolder,    \* handlers owning the MutexGuard of the server's filter
    poisoned,      \* the server's Mutex is poisoned
    hpc,           \* ws_handler: position of each invocation
    hcfg,          \* ws_handler: `config` argument
    hres,          \* ws_handler: result of filter.try_lock()
    hseen,         \* ws_handler: value returned by unlocked_filter.state()
    hout,          \* ws_handler: how the invocation ended
    hops,          \* ws_handler: driver calls made by the invocation
    lpc,           \* main: position of the command-line process
    cmd,           \* main: subcommand
    lcfg,          \* main: configuration arguments of `configure`
    requested_pc,  \* main: target file size
    fc,            \* main: byte counter
    bytes_read,    \* main: result of the last filter.read
    pos,           \* main: write cursor into buffer[..bytes_read]
    lseen,         \* main: value returned by filter.state()
    lres,          \* main: how the process ended
    lops,          \* main: driver calls made by the process
    sumRead,       \* sum of all filter.read results of this capture
    sumWritten,    \* sum of all ofile.write results of this capture
    nreads,        \* number of filter.read calls that returned Ok, up to MaxReads
    readLens,      \* the set of values those calls returned
    chunkOut       \* buffer offsets the sink accepted from the current chunk

devVars    == <<devState, devConfig>>
lockVars   == <<lockHolder, poisoned>>
serverVars == <<hpc, hcfg, hres, hseen, hout, hops>>
cliVars    == <<lpc, cmd, lcfg, requested_pc, fc, bytes_read, pos, lseen,
                lres, lops, sumRead, sumWritten, nreads, readLens, chunkOut>>
vars       == <<devVars, lockVars, serverVars, cliVars>>

\* ---- the driver (moessbauer_filter::MBFilter) ---------------------------
\* configure halts a running filter, loads the configuration and leaves the
\* filter ready.
DrvConfigure(st) == "Ready"

\* start puts a ready filter into the running state.
DrvStart(st) == IF st = "Ready" THEN "Running" ELSE st

\* stop halts a running filter.
DrvStop(st) == IF st = "Running" THEN "Ready" ELSE st

\* MBConfig::validate / MBConfig::new_from_str
validate(c) == c \in Configs

\* a capture is in progress: the command-line process is between its
\* filter.start() and its filter.stop()
CaptureActive == lpc \in {"loop", "read", "write", "stop"}

\* ---- the server: ws_handler, one invocation per remote request ----------
\* A request arrives and warp calls ws_handler(filter.clone(), config, ws).
Request(h, c) ==
    /\ hpc[h] = "idle"
    /\ hpc' = [hpc EXCEPT ![h] = "validate"]
    /\ hcfg' = [hcfg EXCEPT ![h] = c]
    /\ hres' = [hres EXCEPT ![h] = "none"]
    /\ hseen' = [hseen EXCEPT ![h] = "none"]
    /\ hout' = [hout EXCEPT ![h] = "none"]
    /\ hops' = [hops EXCEPT ![h] = {}]
    /\ UNCHANGED <<devVars, lockVars, cliVars>>

\* match config.validate() { Ok(config) => config, Err(e) => panic!("AAAAH") }
Validate(h) ==
    /\ hpc[h] = "validate"
    /\ IF validate(hcfg[h])
         THEN /\ hpc' = [hpc EXCEPT ![h] = "trylock"]
              /\ hout' = hout
         ELSE /\ hpc' = [hpc EXCEPT ![h] = "idle"]
              /\ hout' = [hout EXCEPT ![h] = "Panicked"]
    /\ UNCHANGED <<devVars, lockVars, hcfg, hres, hseen,
                   hops, cliVars>>

\* a try_lock that never reports a locked mutex
try_lock_never_blocks(holders, isPoisoned) ==
    IF isPoisoned THEN "Poisoned" ELSE "Ok"

\* Mutex::try_lock: Err(WouldBlock) when the mutex is locked; otherwise the
\* mutex is taken and the guard comes back as Ok(guard), or inside
\* Err(Poisoned(guard)) when a holder panicked before.
try_lock(holders, isPoisoned) ==
    IF holders # {} THEN "WouldBlock"
    ELSE IF isPoisoned THEN "Poisoned"
    ELSE "Ok"

\* let mut locked_filter = filter.try_lock();
\* if let Ok(ref mut unlocked_filter) = locked_filter { ... }
TryLock(h) ==
    /\ hpc[h] = "trylock"
    /\ LET r == try_lock(lockHolder, poisoned) IN
         /\ hres' = [hres EXCEPT ![h] = r]
         /\ lockHolder' = IF r = "WouldBlock" THEN lockHolder
                          ELSE lockHolder \cup {h}
         /\ hpc' = [hpc EXCEPT ![h] = IF r = "Ok" THEN "state" ELSE "return"]
    /\ UNCHANGED <<devVars, poisoned, hcfg, hseen, hout, hops, cliVars>>

\* the arms of `match unlocked_filter.state()` that lead to configure
ConfigurableStates == {"Ready", "InvalidParameters"}

\* match unlocked_filter.state() { Ready | InvalidParameters => ..,
\*                                 _ => panic!("bbb") }
\* The panic unwinds through locked_filter: the guard is dropped, which
\* unlocks and poisons the mutex.
HandlerState(h) ==
    /\ hpc[h] = "state"
    /\ hseen' = [hseen EXCEPT ![h] = devState]
    /\ hops' = [hops EXCEPT ![h] = @ \cup {"state"}]
    /\ IF devState \in ConfigurableStates
         THEN /\ hpc' = [hpc EXCEPT ![h] = "configure"]
              /\ UNCHANGED <<lockVars, hout>>
         ELSE /\ hpc' = [hpc EXCEPT ![h] = "idle"]
              /\ hout' = [hout EXCEPT ![h] = "Panicked"]
              /\ lockHolder' = lockHolder \ {h}
              /\ poisoned' = TRUE
    /\ UNCHANGED <<devVars, hcfg, hres,
                   cliVars>>

\* a handler that starts the filter right after configuring it
HandlerConfigureStarts(h) ==
    /\ hpc[h] = "configure"
    /\ devState' = DrvStart(DrvConfigure(devState))
    /\ devConfig' = hcfg[h]
    /\ hops' = [hops EXCEPT ![h] = @ \cup {"configure", "start"}]
    /\ hpc' = [hpc EXCEPT ![h] = "return"]
    /\ UNCHANGED <<lockVars, hcfg, hres, hseen, hout, cliVars>>

\* unlocked_filter.configure(config);
HandlerConfigure(h) ==
    /\ hpc[h] = "configure"
    /\ devState' = DrvConfigure(devState)
    /\ devConfig' = hcfg[h]
    /\ hops' = [hops EXCEPT ![h] = @ \cup {"configure"}]
    /\ hpc' = [hpc EXCEPT ![h] = "return"]
    /\ UNCHANGED <<lockVars, hcfg, hres, hseen, hout, cliVars>>

\* the end of ws_handler: locked_filter is dropped, which unlocks the mutex
\* if this invocation took it.  The function produces no reply value.
HandlerReturn(h) ==
    /\ hpc[h] = "return"
    /\ lockHolder' = lockHolder \ {h}
    /\ hout' = [hout EXCEPT ![h] = IF "configure" \in hops[h]
                                     THEN "Configured" ELSE "NotLocked"]
    /\ hpc' = [hpc EXCEPT ![h] = "idle"]
    /\ UNCHANGED <<devVars, poisoned, hcfg, hres, hseen,
                   hops, cliVars>>

\* ---- the command-line process: main ------------------------------------
Commands == {"configure", "start"}

\* the binary is launched with a subcommand and its arguments
Invoke(c, cfg, t) ==
    /\ lpc \in {"idle", "exited"}
    /\ c \in Commands
    /\ IF c = "configure" THEN t = 0 ELSE cfg = "bad"
    /\ lpc' = "new"
    /\ cmd' = c
    /\ lcfg' = cfg
    /\ requested_pc' = t
    /\ fc' = 0
    /\ bytes_read' = 0
    /\ pos' = 0
    /\ lseen' = "none"
    /\ lres' = "none"
    /\ lops' = {}
    /\ sumRead' = 0
    /\ sumWritten' = 0
    /\ nreads' = 0
    /\ readLens' = {}
    /\ chunkOut' = <<>>
    /\ UNCHANGED <<devVars, lockVars, serverVars>>

\* MBFilter::new()?, u64::from_str_radix(..)?, File::create(&path)? succeed;
\* let mut fc: u64 = 0;
LocalSetup ==
    /\ lpc = "new"
    /\ lpc' = IF cmd = "configure" THEN "configure" ELSE "state"
    /\ UNCHANGED <<devVars, lockVars, serverVars, cmd, lcfg, requested_pc, fc,
                   bytes_read, pos, lseen, lres, lops, sumRead, sumWritten>>
    /\ UNCHANGED <<nreads, readLens, chunkOut>>

\* one of MBFilter::new()?, u64::from_str_radix(..)?, File::create(&path)?
\* returns the error from main
LocalSetupFail ==
    /\ lpc = "new"
    /\ lpc' = "exited"
    /\ lres' = "SetupErr"
    /\ UNCHANGED <<devVars, lockVars, serverVars, cmd, lcfg, requested_pc, fc,
                   bytes_read, pos, lseen, lops, sumRead, sumWritten>>
    /\ UNCHANGED <<nreads, readLens, chunkOut>>

\* configure subcommand: MBConfig::new_from_str(..)?; filter.configure(config);
LocalConfigure ==
    /\ lpc = "configure"
    /\ lpc' = "exited"
    /\ IF validate(lcfg)
         THEN /\ devState' = DrvConfigure(devState)
              /\ devConfig' = lcfg
              /\ lops' = lops \cup {"configure"}
              /\ lres' = "Ok"
         ELSE /\ lres' = "ParseErr"
              /\ UNCHANGED <<devVars, lops>>
    /\ UNCHANGED <<lockVars, serverVars, cmd, lcfg, requested_pc, fc,
                   bytes_read, pos, lseen, sumRead, sumWritten>>
    /\ UNCHANGED <<nreads, readLens, chunkOut>>

\* a state match that also lets an unconfigured filter start
StartableStatesLoose == {"Ready", "Unconfigured"}

\* the arm of `match filter.state()` that runs the capture
StartableStates == {"Ready"}

\* match filter.state() { MBFState::Ready => .., _ => Err(MBError::WrongState)? }
LocalState ==
    /\ lpc = "state"
    /\ lseen' = devState
    /\ lops' = lops \cup {"state"}
    /\ IF devState \in StartableStates
         THEN /\ lpc' = "start"
              /\ lres' = lres
         ELSE /\ lpc' = "exited"
              /\ lres' = "WrongState"
    /\ UNCHANGED <<devVars, lockVars, serverVars, cmd, lcfg, requested_pc, fc,
                   bytes_read, pos, sumRead, sumWritten>>
    /\ UNCHANGED <<nreads, readLens, chunkOut>>

\* filter.start(); let mut buffer: [u8; 12*2048] = [0; 12*2048];
LocalStart ==
    /\ lpc = "start"
    /\ devState' = DrvStart(devState)
    /\ lops' = lops \cup {"start"}
    /\ lpc' = "loop"
    /\ UNCHANGED <<devConfig, lockVars, serverVars, cmd, lcfg, requested_pc, fc,
                   bytes_read, pos, lseen, lres, sumRead, sumWritten>>
    /\ UNCHANGED <<nreads, readLens, chunkOut>>

\* a loop condition that reads once more when the target is just reached
LoopContinuesLate(count, target) == count <= target

\* a loop condition that stops one byte early
LoopContinuesShort(count, target) == count + 1 < target

\* while fc < requested_pc
LoopContinues(count, target) == count < target

LocalLoop ==
    /\ lpc = "loop"
    /\ lpc' = IF LoopContinues(fc, requested_pc) THEN "read" ELSE "stop"
    /\ UNCHANGED <<devVars, lockVars, serverVars, cmd, lcfg, requested_pc, fc,
                   bytes_read, pos, lseen, lres, lops, sumRead, sumWritten>>
    /\ UNCHANGED <<nreads, readLens, chunkOut>>

\* let bytes_read = filter.read(&mut buffer)?;  (Ok(n)), let mut pos = 0;
LocalRead(n) ==
    /\ lpc = "read"
    /\ n \in 0 .. BufLen
    /\ sumRead + n <= MaxSum
    /\ bytes_read' = n
    /\ pos' = 0
    /\ sumRead' = sumRead + n
    /\ lops' = lops \cup {"read"}
    /\ lpc' = "write"
    /\ UNCHANGED <<devVars, lockVars, serverVars, cmd, lcfg, requested_pc, fc,
                   lseen, lres, sumWritten>>
    /\ nreads' = IF nreads < MaxReads THEN nreads + 1 ELSE nreads
    /\ readLens' = readLens \cup {n}
    /\ chunkOut' = <<>>

\* filter.read(&mut buffer)? returns Err: `?` returns it from main
LocalReadErr ==
    /\ lpc = "read"
    /\ lops' = lops \cup {"read"}
    /\ lres' = "ReadErr"
    /\ lpc' = "exited"
    /\ UNCHANGED <<devVars, lockVars, serverVars, cmd, lcfg, requested_pc, fc,
                   bytes_read, pos, lseen, sumRead, sumWritten>>
    /\ UNCHANGED <<nreads, readLens, chunkOut>>

\* a write that always hands the sink the start of the buffer
WriteSliceFromStart(p, w) == [i \in 1 .. w |-> i - 1]

\* &buffer[pos..bytes_read]: the buffer offsets of the w bytes the sink
\* accepts from a slice that begins at offset p
WriteSlice(p, w) == [i \in 1 .. w |-> p + i - 1]

\* while pos < (&buffer[..bytes_read]).len() {
\*     let bytes_written = ofile.write(&buffer[pos..bytes_read])?;  (Ok(w))
\*     pos += bytes_written; }
LocalWrite(w) ==
    /\ lpc = "write"
    /\ pos < bytes_read
    /\ w \in 0 .. (bytes_read - pos)
    /\ pos' = pos + w
    /\ sumWritten' = sumWritten + w
    /\ UNCHANGED <<devVars, lockVars, serverVars, lpc, cmd, lcfg, requested_pc,
                   fc, bytes_read, lseen, lres, lops, sumRead>>
    /\ chunkOut' = chunkOut \o WriteSlice(pos, w)
    /\ UNCHANGED <<nreads, readLens>>

\* ofile.write(..)? returns Err: `?` returns it from main
LocalWriteErr ==
    /\ lpc = "write"
    /\ pos < bytes_read
    /\ lres' = "WriteErr"
    /\ lpc' = "exited"
    /\ UNCHANGED <<devVars, lockVars, serverVars, cmd, lcfg, requested_pc, fc,
                   bytes_read, pos, lseen, lops, sumRead, sumWritten>>
    /\ UNCHANGED <<nreads, readLens, chunkOut>>

\* fc += bytes_read as u64;  (u64 arithmetic; wraps when overflow checks
\* are off)
AddU64(a, b) == (a + b) % U64Mod

LocalAccumulate ==
    /\ lpc = "write"
    /\ ~(pos < bytes_read)
    /\ fc' = AddU64(fc, bytes_read)
    /\ lpc' = "loop"
    /\ UNCHANGED <<devVars, lockVars, serverVars, cmd, lcfg, requested_pc,
                   bytes_read, pos, lseen, lres, lops, sumRead, sumWritten>>
    /\ UNCHANGED <<nreads, readLens, chunkOut>>

\* fc += bytes_read as u64;  with overflow checks on, an overflowing
\* addition panics
LocalOverflowPanic ==
    /\ lpc = "write"
    /\ ~(pos < bytes_read)
    /\ fc + bytes_read >= U64Mod
    /\ lres' = "Panicked"
    /\ lpc' = "exited"
    /\ UNCHANGED <<devVars, lockVars, serverVars, cmd, lcfg, requested_pc, fc,
                   bytes_read, pos, lseen, lops, sumRead, sumWritten>>
    /\ UNCHANGED <<nreads, readLens, chunkOut>>

\* filter.stop(); and main returns Ok(())
LocalStop ==
    /\ lpc = "stop"
    /\ devState' = DrvStop(devState)
    /\ lops' = lops \cup {"stop"}
    /\ lres' = "Ok"
    /\ lpc' = "exited"
    /\ UNCHANGED <<devConfig, lockVars, serverVars, cmd, lcfg, requested_pc, fc,
                   bytes_read, pos, lseen, sumRead, sumWritten>>
    /\ UNCHANGED <<nreads, readLens, chunkOut>>

\* ---- specification ------------------------------------------------------
\* The hardware keeps its state across program runs, so the program may find
\* it in any state.  The server has created its Arc<Mutex<MBFilter>>.
Init ==
    /\ devState \in States
    /\ devConfig = "c0"
    /\ lockHolder = {}
    /\ poisoned = FALSE
    /\ hpc = [h \in Handlers |-> "idle"]
    /\ hcfg = [h \in Handlers |-> "bad"]
    /\ hres = [h \in Handlers |-> "none"]
    /\ hseen = [h \in Handlers |-> "none"]
    /\ hout = [h \in Handlers |-> "none"]
    /\ hops = [h \in Handlers |-> {}]
    /\ lpc = "idle"
    /\ cmd = "start"
    /\ lcfg = "bad"
    /\ requested_pc = 0
    /\ fc = 0
    /\ bytes_read = 0
    /\ pos = 0
    /\ lseen = "none"
    /\ lres = "none"
    /\ lops = {}
    /\ sumRead = 0
    /\ sumWritten = 0
    /\ nreads = 0
    /\ readLens = {}
    /\ chunkOut = <<>>

Next ==
    \/ \E h \in Handlers, c \in Requests : Request(h, c)
    \/ \E h \in Handlers : Validate(h)
    \/ \E h \in Handlers : TryLock(h)
    \/ \E h \in Handlers : HandlerState(h)
    \/ \E h \in Handlers : HandlerConfigure(h)
    \/ \E h \in Handlers : HandlerReturn(h)
    \/ \E c \in Commands, cfg \in Requests, t \in 0 .. (U64Mod - 1) :
           Invoke(c, cfg, t)
    \/ LocalSetup
    \/ LocalSetupFail
    \/ LocalConfigure
    \/ LocalState
    \/ LocalStart
    \/ LocalLoop
    \/ \E n \in 0 .. BufLen : LocalRead(n)
    \/ LocalReadErr
    \/ \E w \in 0 .. BufLen : LocalWrite(w)
    \/ LocalWriteErr
    \/ LocalAccumulate
    \/ LocalOverflowPanic
    \/ LocalStop

Spec == Init /\ [][Next]_vars

\* a step of the running command-line process
CliStep ==
    \/ LocalSetup
    \/ LocalSetupFail
    \/ LocalConfigure
    \/ LocalState
    \/ LocalStart
    \/ LocalLoop
    \/ \E n \in 0 .. BufLen : LocalRead(n)
    \/ LocalReadErr
    \/ \E w \in 0 .. BufLen : LocalWrite(w)
    \/ LocalWriteErr
    \/ LocalAccumulate
    \/ LocalOverflowPanic
    \/ LocalStop

\* The command-line process, once launched, keeps running: it is never
\* suspended for ever.  What filter.read and ofile.write return is up to the
\* device and the sink.
FairSpec == Spec /\ WF_vars(CliStep)

\* ---- properties ---------------------------------------------------------
DriverOps == {"configure", "start", "stop", "read"}

\* the command-line process makes a call of configure, start, stop or read
CliDriverCall ==
    \/ LocalStart
    \/ LocalStop
    \/ LocalReadErr
    \/ \E n \in 0 .. BufLen : LocalRead(n)
    \/ LocalConfigure /\ validate(lcfg)

\* the capture path of `start` has returned after issuing filter.start()
CaptureReturned == lpc = "exited" /\ "start" \in lops

\* handler h is between its try_lock and its return
AfterTryLock(h) == hpc[h] \in {"state", "configure", "return"}

\* C1: after the capture path returns, by whatever exit, the device is not
\* Running and the command-line process holds no access token.
C1_StoppedAfterCapture ==
    CaptureReturned => (devState # "Running" /\ Cli \notin lockHolder)

C4_OnlyHolderDrives ==
    [][/\ CliDriverCall => Cli \in lockHolder
       /\ \A h \in Handlers : HandlerConfigure(h) => h \in lockHolder]_vars

\* C5: when filter.state() reports a state other than Ready, the `start`
\* path ends with WrongState and has called none of start, read, stop.
C5_WrongStateTouchesNothing ==
    lseen \in States \ {"Ready"} =>
        /\ lpc = "exited"
        /\ lres = "WrongState"
        /\ lops \cap DriverOps = {}

\* C5 witness: `start` was run on an unconfigured filter and has ended.
C5_Witness ==
    /\ cmd = "start" /\ lseen = "Unconfigured"
    /\ lpc = "exited" /\ lres = "WrongState"

\* C6: a handler that took the mutex ends with the configuration applied in
\* every device state: by stop then configure when it saw Running, by
\* configure alone otherwise.
C6_ConfiguresInEveryState ==
    \A h \in Handlers :
        (hpc[h] = "idle" /\ hseen[h] \in States) =>
            /\ hout[h] = "Configured"
            /\ "configure" \in hops[h]
            /\ ("stop" \in hops[h] <=> hseen[h] = "Running")

\* C7: a request whose try_lock runs while another handler holds the mutex,
\* or while a capture is in progress, is turned away as busy and makes no
\* driver call.
C7_BusyRejected ==
    /\ [][\A h \in Handlers :
              (TryLock(h) /\ (lockHolder # {} \/ CaptureActive)) =>
                  hres'[h] = "WouldBlock"]_vars
    /\ [](\A h \in Handlers :
              hres[h] = "WouldBlock" =>
                  hops[h] = {} /\ hout[h] \in {"none", "NotLocked"})

\* C8: the mutex is held only by running handlers, and a try_lock made when
\* nobody holds it succeeds.
C8_ReleasedAndReacquirable ==
    /\ [](\A h \in lockHolder : AfterTryLock(h))
    /\ [][\A h \in Handlers :
              (TryLock(h) /\ lockHolder = {}) => hres'[h] = "Ok"]_vars

\* C9: a request that fails validation is answered without a panic, without
\* a try_lock and without any driver call.
C9_InvalidRequestRejectedUntouched ==
    \A h \in Handlers :
        (hpc[h] = "idle" /\ hout[h] # "none" /\ ~validate(hcfg[h])) =>
            /\ hout[h] # "Panicked"
            /\ hres[h] = "none"
            /\ hops[h] = {}

\* C10: no remote request makes the handler panic.
C10_NoRequestPanics ==
    \A h \in Handlers : hout[h] # "Panicked"

\* the legality table of the device state machine
Legal(op, st) ==
    CASE op = "configure" -> st \in {"Unconfigured", "InvalidParameters", "Ready"}
      [] op = "start"     -> st = "Ready"
      [] op = "stop"      -> st = "Running"
      [] op = "read"      -> st = "Running"

\* C11: wherever the controller decides on an operation it permits it
\* exactly when the legality table allows it in the current device state:
\* the state matches of ws_handler and of `start` let configure, resp.
\* start, through exactly in the table's states, and every configure, read
\* and stop that is issued is legal in the state it is issued in.
C11_PermitsExactlyTheTable ==
    [][/\ \A h \in Handlers :
              HandlerState(h) =>
                  (hpc'[h] = "configure" <=> Legal("configure", devState))
       /\ LocalState => (lpc' = "start" <=> Legal("start", devState))
       /\ (LocalConfigure /\ validate(lcfg)) => Legal("configure", devState)
       /\ (\A h \in Handlers :
              HandlerConfigure(h) => Legal("configure", devState))
       /\ LocalStart => Legal("start", devState)
       /\ (LocalReadErr \/ \E n \in 0 .. BufLen : LocalRead(n)) =>
              Legal("read", devState)
       /\ LocalStop => Legal("stop", devState)]_vars

\* C12: no ws_handler invocation calls start, and the device only ever
\* enters Running by the filter.start() of the `start` subcommand.
C12_RemoteNeverStarts ==
    /\ [](\A h \in Handlers : "start" \notin hops[h])
    /\ [][(devState' = "Running" /\ devState # "Running") => LocalStart]_vars

\* C12 witness: a remote request has been applied to the device, which is
\* not running, while the command line has not started anything.
C12_Witness ==
    \E h \in Handlers :
        /\ hout[h] = "Configured" /\ hops[h] = {"state", "configure"}
        /\ devState = "Ready" /\ devConfig = hcfg[h]
        /\ "start" \notin lops

\* C15: configure is never issued while the device is Running, neither by
\* the `configure` subcommand nor by ws_handler.
C15_NoConfigureWhileRunning ==
    [][((LocalConfigure /\ validate(lcfg))
          \/ \E h \in Handlers : HandlerConfigure(h))
       => devState # "Running"]_vars

\* C16: start is issued only when the device is Ready, and no other caller's
\* driver operation takes effect between the state check of `start` and its
\* filter.start().
C16_StartOnlyWhenReadyUndisturbed ==
    [][/\ LocalStart => devState = "Ready"
       /\ \A h \in Handlers : HandlerConfigure(h) => lpc # "start"]_vars

\* C17: the capture target is positive whenever a capture is started.
C17_StartOnlyWithPositiveTarget ==
    [][LocalStart => requested_pc > 0]_vars

\* a read is issued by the `start` subcommand
LocalReadCall == LocalReadErr \/ \E n \in 0 .. BufLen : LocalRead(n)

\* the target of the two-chunk scenario (24576 = 2 * 12288)
TwoChunks == 2 * ChunkLen

FirstOffsets(k) == [i \in 1 .. k |-> i - 1]

\* C14: while a chunk is being written the sink has accepted exactly the
\* offsets 0 .. pos-1 of it, in order and once each, and whenever the loop
\* is outside the inner write loop (so whenever the next read is issued) it
\* has accepted all bytes_read bytes of the chunk, in order and once each.
C14_ChunkFlushedInOrder ==
    /\ lpc = "write" => (pos <= bytes_read /\ chunkOut = FirstOffsets(pos))
    /\ lpc \in {"loop", "read", "stop"} => chunkOut = FirstOffsets(bytes_read)

\* C14 witness: a sink write accepted only part of the chunk and the
\* remainder is still to be written.
C14_Witness ==
    /\ lpc = "write"
    /\ 0 < pos /\ pos < bytes_read
    /\ chunkOut = FirstOffsets(pos)

\* C18: once the capture has entered its loop, the `start` subcommand
\* eventually returns.
C18_CaptureReturns == (lpc = "loop") ~> (lpc = "exited")

\* C19: a successful capture has written at least the target and less than
\* the target plus one buffer.
C19_OvershootBelowOneBuffer ==
    (CaptureReturned /\ lres = "Ok") =>
        /\ requested_pc <= sumWritten
        /\ sumWritten < requested_pc + BufLen

====
